---- MODULE Spec2Model ----
(***************************************************************************)
(* A model of src/generatekey.py: the KeyGenerator class, which issues     *)
(* time-limited keys as JSON files in a directory (generate_key) and       *)
(* validates a presented key by scanning that directory (validate_key).    *)
(*                                                                         *)
(* The file system (the keys directory and its listing order) and the      *)
(* wall clock are shared state.  One caller issues keys and one caller     *)
(* validates keys; the two run concurrently, so each method is cut at the  *)
(* points where it reads the clock or touches the directory.               *)
(***************************************************************************)
EXTENDS Integers, Sequences, FiniteSets, TLC

(***************************************************************************)
(* Bounds of the model.                                                    *)
(***************************************************************************)
\* secrets.token_bytes(32) draws one of NumSecrets values
NumSecrets == 2
\* str(uuid.uuid4())[:8] draws one of NumIds values
NumIds == 2
\* --duration ranges over 0..MaxAmount
MaxAmount == 1
\* the clock stops advancing at MaxClock ticks
MaxClock == 2
\* at most MaxIssues calls of generate_key
MaxIssues == 2
\* clock ticks in one day (timedelta(days=1))
TicksPerDay == 1
\* the clock advances by at most MaxSkew ticks between the first and the
\* last reading of the clock in one generate_key call
MaxSkew == 1

(***************************************************************************)
(* Values.                                                                 *)
(***************************************************************************)
Secrets == 1..NumSecrets
\* what a caller may present to validate_key: any generated secret, or a
\* string (0) that generate_key never produces
PresentedKeys == 0..NumSecrets
Ids == 1..NumIds
Amounts == 0..MaxAmount

\* line 24-29
unit_multiplier ==
    [u \in {"days", "weeks", "months", "years"} |->
        CASE u = "days" -> 1
          [] u = "weeks" -> 7
          [] u = "months" -> 30
          [] u = "years" -> 365]

\* the units a caller of generate_key may pass; "hours" is not a key of
\* unit_multiplier
UnitInputs == DOMAIN unit_multiplier \cup {"hours"}

\* timedelta(days=d), in clock ticks
timedelta(d) == d * TicksPerDay

\* datetime.isoformat / datetime.fromisoformat: a timestamp and its text
isoformat(t) == <<"iso", t>>
fromisoformat(s) == s[2]

\* hashlib.sha256(key.encode()).hexdigest(): injective on the secrets of
\* the model
sha256(s) == (37 * s + 11) % 101

\* File names are <<stem, timestamp, id, extension>>.
\* custom_filename=None
NoName == <<"", 0, 0, "">>
\* the file names a caller passes as custom_filename
CustomNames == {<<"mykey", 0, 0, ".json">>, <<"mykey", 0, 0, ".txt">>}
CustomInputs == {NoName} \cup CustomNames

\* line 48: datetime.now().strftime("%Y%m%d_%H%M%S"): the text of the time,
\* to the tick
strftime(t) == <<"ts", t>>

\* line 50: f"key_{timestamp}_{unique_id}.json"
AutoName(timestamp, unique_id) == <<"key", timestamp, unique_id, ".json">>

\* line 69: filename.endswith('.json')
endswith_json(filename) == filename[4] = ".json"

\* line 55, 70: os.path.join(self.keys_dir, filename)
os_path_join(keys_dir, filename) == <<keys_dir, filename>>

NoData ==
    [key |-> 0, created |-> isoformat(0), expires |-> isoformat(0),
     duration |-> 0, unit |-> "", valid_days |-> 0, hash |-> 0]

\* line 36-44
KeyData(key, created, expiration, duration, unit, days) ==
    [key |-> key, created |-> isoformat(created),
     expires |-> isoformat(expiration), duration |-> duration,
     unit |-> unit, valid_days |-> days, hash |-> sha256(key)]

\* The content of a directory entry: a JSON document (json.dump), bytes
\* json.load cannot parse (a foreign file, or a file opened for writing and
\* not yet written), or a subdirectory holding one record.
JsonBody(key_data) == [type |-> "json", data |-> key_data]
GarbageBody == [type |-> "garbage", data |-> NoData]
DirBody(key_data) == [type |-> "dir", data |-> key_data]

\* A record written under the date-partitioned layout before this program
\* was started: keys/2024-01-01/00-00-00, valid for one year from tick 0.
HistoricData == KeyData(1, 0, timedelta(365), 1, "years", 365)
PartitionEntry ==
    [name |-> <<"2024-01-01", 0, 0, "">>, body |-> DirBody(HistoricData)]
\* A file in the keys directory that is not JSON.
CorruptEntry == [name |-> <<"junk", 0, 0, ".json">>, body |-> GarbageBody]

\* The keys directory as KeyGenerator.__init__ may find it.
AbsentStore == [exists |-> FALSE, dir |-> <<>>]
EmptyStore == [exists |-> TRUE, dir |-> <<>>]
CorruptStore == [exists |-> TRUE, dir |-> <<CorruptEntry>>]
PartitionedStore == [exists |-> TRUE, dir |-> <<PartitionEntry>>]

(***************************************************************************)
(* State.                                                                  *)
(***************************************************************************)
VARIABLES
    rootExists,   \* the keys directory exists
    dir,          \* its entries [name, body], in os.listdir order
    clock,        \* datetime.now(), in ticks
    constructed,  \* KeyGenerator.__init__ has run
    gen,          \* the generate_key call in progress
    issueRet,     \* what the last generate_key call returned or raised
    nCalls,       \* number of generate_key calls so far
    val,          \* the validate_key call in progress
    valRet,       \* what the last validate_key call returned or raised
    issuedKeys,   \* history: the secrets generate_key has returned
    preRoot,      \* history: the directory existed before __init__
    removed,      \* history: something was deleted out-of-band
    calm          \* history: nothing has disturbed the calls (see Disturbed)

vars ==
    <<rootExists, dir, clock, constructed, gen, issueRet, nCalls, val,
      valRet, issuedKeys, preRoot, removed, calm>>

IdleGen == [pc |-> "idle", key_data |-> NoData, filename |-> NoName]

NoIssue ==
    [status |-> "none", data |-> NoData, path |-> os_path_join("keys", NoName)]

IdleVal == [pc |-> "idle", key |-> 0, listing |-> <<>>, idx |-> 1]

NoRet == [key |-> 0, outcome |-> "none", data |-> NoData]

\* calm.call: the directory and the clock are as they were when the latest
\*            validate_key was called;
\* calm.prev: ... as they were when the validate_key before that was called;
\* calm.iss:  ... as they were when the latest generate_key returned
Disturbed == [call |-> FALSE, prev |-> FALSE, iss |-> FALSE]

(***************************************************************************)
(* Directory helpers.                                                      *)
(***************************************************************************)
Names(d) == [i \in 1..Len(d) |-> d[i].name]

HasName(d, name) == \E i \in 1..Len(d) : d[i].name = name

IndexOf(d, name) == CHOOSE i \in 1..Len(d) : d[i].name = name

\* os.listdir position of a new entry: anywhere
InsertAt(d, pos, entry) ==
    SubSeq(d, 1, pos - 1) \o <<entry>> \o SubSeq(d, pos, Len(d))

RemoveAt(d, pos) == SubSeq(d, 1, pos - 1) \o SubSeq(d, pos + 1, Len(d))

\* line 62: open(file_path, 'w') creates the file, or truncates it in place
OpenForWrite(d, name, pos) ==
    IF HasName(d, name)
    THEN [d EXCEPT ![IndexOf(d, name)].body = GarbageBody]
    ELSE InsertAt(d, pos, [name |-> name, body |-> GarbageBody])

\* line 63: json.dump(key_data, f, indent=2), and the file is closed
WriteJson(d, name, key_data) ==
    IF HasName(d, name)
    THEN [d EXCEPT ![IndexOf(d, name)].body = JsonBody(key_data)]
    ELSE d

(***************************************************************************)
(* KeyGenerator.__init__ (line 13-16)                                      *)
(***************************************************************************)
Construct ==
    /\ ~constructed
    /\ constructed' = TRUE
    \* os.makedirs(self.keys_dir, exist_ok=True)
    /\ rootExists' = TRUE
    /\ UNCHANGED <<dir, clock, gen, issueRet, nCalls, val, valRet, issuedKeys,
                   preRoot, removed, calm>>

(***************************************************************************)
(* KeyGenerator.generate_key (line 18-58) and _store_key (line 60-63)      *)
(***************************************************************************)
\* line 47-52: the file name
FileName(custom_filename, now, unique_id) ==
    IF custom_filename = NoName
    THEN AutoName(strftime(now), unique_id)
    ELSE custom_filename

\* line 18-56, 62: the secret, the validity in days, the record, the file
\* name, and the file opened for writing.  Nothing another caller can see
\* happens before open(), so the steps up to it are one action; the clock
\* is read three times on the way (line 34, 38, 48) and advances by d1
\* between the first two readings and by d2 between the last two.
\* unit_multiplier[unit] raises KeyError (line 31); open raises
\* FileNotFoundError when the directory is gone (line 62).
GenerateKey(duration, unit, custom_filename, key, unique_id, pos, d1, d2) ==
    /\ constructed
    /\ gen.pc = "idle"
    /\ nCalls < MaxIssues
    /\ nCalls' = nCalls + 1
    /\ IF unit \notin DOMAIN unit_multiplier
       THEN /\ d1 = 0 /\ d2 = 0 /\ unique_id = 1 /\ pos = 1
            /\ issueRet' = [NoIssue EXCEPT !.status = "KeyError"]
            /\ UNCHANGED <<gen, dir, clock, calm>>
       ELSE LET days == duration * unit_multiplier[unit]
                expiration == clock + timedelta(days)
                created == clock + d1
                key_data == KeyData(key, created, expiration, duration, unit,
                                    days)
                filename == FileName(custom_filename, clock + d1 + d2,
                                     unique_id)
            IN  /\ clock + d1 + d2 <= MaxClock
                /\ clock' = clock + d1 + d2
                /\ pos \in 1..(Len(dir) + 1)
                /\ (custom_filename # NoName => unique_id = 1)
                /\ (HasName(dir, filename) => pos = 1)
                /\ IF rootExists
                   THEN /\ dir' = OpenForWrite(dir, filename, pos)
                        /\ gen' = [pc |-> "open", key_data |-> key_data,
                                   filename |-> filename]
                        /\ calm' = Disturbed
                        /\ UNCHANGED issueRet
                   ELSE /\ issueRet' =
                             [NoIssue EXCEPT !.status = "FileNotFoundError"]
                        /\ calm' = IF d1 + d2 > 0 THEN Disturbed ELSE calm
                        /\ UNCHANGED <<gen, dir>>
    /\ UNCHANGED <<rootExists, constructed, val, valRet, issuedKeys, preRoot,
                   removed>>

\* line 63, 58: the record is written, the file closed, and generate_key
\* returns (key_data, file_path)
StoreKey ==
    /\ gen.pc = "open"
    /\ dir' = WriteJson(dir, gen.filename, gen.key_data)
    /\ issueRet' = [status |-> "ok", data |-> gen.key_data,
                    path |-> os_path_join("keys", gen.filename)]
    /\ issuedKeys' = issuedKeys \cup {gen.key_data.key}
    /\ gen' = IdleGen
    /\ calm' = [Disturbed EXCEPT !.iss = TRUE]
    /\ UNCHANGED <<rootExists, clock, constructed, nCalls, val, valRet,
                   preRoot, removed>>

\* line 63: json.dump fails part-way (the device is full, say).  The with
\* statement closes the file, nothing removes it, and the exception leaves
\* generate_key.
StoreKeyFails ==
    /\ gen.pc = "open"
    /\ issueRet' = [NoIssue EXCEPT !.status = "OSError"]
    /\ gen' = IdleGen
    /\ UNCHANGED <<rootExists, dir, clock, constructed, nCalls, val, valRet,
                   issuedKeys, preRoot, removed, calm>>

(***************************************************************************)
(* KeyGenerator.validate_key (line 65-83)                                  *)
(***************************************************************************)
\* what validate_key hands back: (True, key_data) or (False, message), or
\* the exception it raises
Return(key, outcome, data) == [key |-> key, outcome |-> outcome, data |-> data]

\* line 65-68: the call and os.listdir(self.keys_dir), which raises
\* FileNotFoundError (line 82-83); an empty listing falls through to
\* line 81
ValidateBegin(key) ==
    /\ constructed
    /\ val.pc = "idle"
    /\ calm' = [calm EXCEPT !.call = TRUE, !.prev = calm.call]
    /\ IF ~rootExists
       THEN /\ valRet' = Return(key, "No keys found", NoData)
            /\ val' = IdleVal
       ELSE IF dir = <<>>
       THEN /\ valRet' = Return(key, "Invalid key", NoData)
            /\ val' = IdleVal
       ELSE /\ val' = [pc |-> "scan", key |-> key, listing |-> Names(dir),
                       idx |-> 1]
            /\ UNCHANGED valRet
    /\ UNCHANGED <<rootExists, dir, clock, constructed, gen, issueRet, nCalls,
                   issuedKeys, preRoot, removed>>

\* a comparison under which a record is still good at the instant it
\* expires; validate_key does not use it
NotExpiredInclusive(expires, now) == fromisoformat(expires) >= now

\* line 77: datetime.fromisoformat(key_data['expires']) > datetime.now()
NotExpired(expires, now) == fromisoformat(expires) > now

\* a comparison of the last bit of the two hashes only; validate_key does
\* not use it
HashMatchesLoose(key_data, key) == key_data.hash % 2 = sha256(key) % 2

\* line 76: key_data['hash'] == key_hash
HashMatches(key_data, key) == key_data.hash = sha256(key)

\* an iteration that passes over an expired record of the presented key
\* and goes on looking for one that is still good; validate_key does not do
\* this
ExamineBestMatch(filename, key) ==
    IF ~endswith_json(filename)
    THEN [outcome |-> "next", data |-> NoData]
    ELSE IF ~HasName(dir, filename)
    THEN [outcome |-> "No keys found", data |-> NoData]
    ELSE LET body == dir[IndexOf(dir, filename)].body IN
         IF body.type # "json"
         THEN [outcome |-> "JSONDecodeError", data |-> NoData]
         ELSE IF HashMatches(body.data, key)
                 /\ NotExpired(body.data.expires, clock)
         THEN [outcome |-> "Valid", data |-> body.data]
         ELSE [outcome |-> "next", data |-> NoData]

\* line 69-80: one iteration of the loop over the listing.  "next" goes on
\* to the following file name; anything else ends the call.
Examine(filename, key) ==
    IF ~endswith_json(filename)
    THEN [outcome |-> "next", data |-> NoData]
    ELSE IF ~HasName(dir, filename)
    \* line 71: open raises FileNotFoundError, caught at line 82
    THEN [outcome |-> "No keys found", data |-> NoData]
    ELSE LET body == dir[IndexOf(dir, filename)].body IN
         IF body.type # "json"
         \* line 72: json.load raises json.JSONDecodeError, which nothing
         \* catches
         THEN [outcome |-> "JSONDecodeError", data |-> NoData]
         ELSE IF HashMatches(body.data, key)
         THEN IF NotExpired(body.data.expires, clock)
              THEN [outcome |-> "Valid", data |-> body.data]
              ELSE [outcome |-> "Key expired", data |-> NoData]
         ELSE [outcome |-> "next", data |-> NoData]

\* what one iteration does to the caller of validate_key; after the last
\* file name the loop ends and line 81 returns
ScanStep ==
    /\ val.pc = "scan"
    /\ LET r == Examine(val.listing[val.idx], val.key) IN
       IF r.outcome = "next"
       THEN IF val.idx = Len(val.listing)
            THEN /\ valRet' = Return(val.key, "Invalid key", NoData)
                 /\ val' = IdleVal
            ELSE /\ val' = [val EXCEPT !.idx = val.idx + 1]
                 /\ UNCHANGED valRet
       ELSE /\ valRet' = Return(val.key, r.outcome, r.data)
            /\ val' = IdleVal

\* a scan that deletes the record it finds expired; validate_key does not
\* do this
ValidateScanPurging ==
    /\ ScanStep
    /\ dir' = IF val'.pc = "idle" /\ valRet'.outcome = "Key expired"
              THEN RemoveAt(dir, IndexOf(dir, val.listing[val.idx]))
              ELSE dir
    /\ UNCHANGED <<rootExists, clock, constructed, gen, issueRet, nCalls,
                   issuedKeys, preRoot, removed, calm>>

\* line 68-81: validate_key reads the directory and writes nothing
ValidateScan ==
    /\ ScanStep
    /\ UNCHANGED <<rootExists, dir, clock, constructed, gen, issueRet, nCalls,
                   issuedKeys, preRoot, removed, calm>>

(***************************************************************************)
(* The environment: the clock, and deletion from outside the program.      *)
(***************************************************************************)
Tick ==
    /\ clock < MaxClock
    /\ clock' = clock + 1
    /\ calm' = Disturbed
    /\ UNCHANGED <<rootExists, dir, constructed, gen, issueRet, nCalls, val,
                   valRet, issuedKeys, preRoot, removed>>

\* a file of the directory is deleted by somebody else
ExternalUnlink(pos) ==
    /\ constructed
    /\ pos \in 1..Len(dir)
    /\ dir' = RemoveAt(dir, pos)
    /\ removed' = TRUE
    /\ calm' = Disturbed
    /\ UNCHANGED <<rootExists, clock, constructed, gen, issueRet, nCalls, val,
                   valRet, issuedKeys, preRoot>>

\* the whole directory is deleted by somebody else
ExternalRmtree ==
    /\ constructed
    /\ rootExists
    /\ rootExists' = FALSE
    /\ dir' = <<>>
    /\ removed' = TRUE
    /\ calm' = Disturbed
    /\ UNCHANGED <<clock, constructed, gen, issueRet, nCalls, val, valRet,
                   issuedKeys, preRoot>>

(***************************************************************************)
(* Specifications.  Every one runs the same actions; they differ in the    *)
(* directory __init__ finds and in the sets the callers' inputs are drawn  *)
(* from.                                                                   *)
(***************************************************************************)
InitOn(stores) ==
    /\ \E s \in stores : /\ rootExists = s.exists
                         /\ dir = s.dir
                         /\ preRoot = s.exists
    /\ clock = 0
    /\ constructed = FALSE
    /\ gen = IdleGen
    /\ issueRet = NoIssue
    /\ nCalls = 0
    /\ val = IdleVal
    /\ valRet = NoRet
    /\ issuedKeys = {}
    /\ removed = FALSE
    /\ calm = Disturbed

\* the program and the clock
Program(U) ==
    \/ Construct
    \/ \E duration \in U.amounts, unit \in U.units,
          custom_filename \in U.customs, key \in U.secrets,
          unique_id \in U.ids, pos \in 1..(Len(dir) + 1),
          d1 \in U.skews, d2 \in U.skews :
            /\ d1 + d2 <= MaxSkew
            /\ GenerateKey(duration, unit, custom_filename, key, unique_id,
                           pos, d1, d2)
    \/ StoreKey
    \/ \E key \in U.presented : ValidateBegin(key)
    \/ ValidateScan
    \/ Tick

\* deletion from outside the program
Environment ==
    \/ \E pos \in 1..Len(dir) : ExternalUnlink(pos)
    \/ ExternalRmtree

\* Two secrets, automatic file names, validity of 0..MaxAmount days.  The
\* secrets are interchangeable, so the validating caller presents the first
\* one, or a string that is no secret.
ExpiryInputs ==
    [amounts |-> {0, 1}, units |-> {"days"}, customs |-> {NoName},
     secrets |-> {1, 2}, presented |-> {0, 1}, ids |-> {1}, skews |-> {0}]

\* One secret, automatic file names, validity of 0 or 1 day.
SmallInputs ==
    [amounts |-> {0, 1}, units |-> {"days"}, customs |-> {NoName},
     secrets |-> {1}, presented |-> {0, 1}, ids |-> {1}, skews |-> {0}]

\* One secret, which is the key presented; every unit and 0..MaxAmount of
\* it; automatic and caller-given file names.
CallInputs ==
    [amounts |-> Amounts, units |-> UnitInputs, customs |-> CustomInputs,
     secrets |-> {1}, presented |-> {1}, ids |-> {1}, skews |-> {0}]

\* Keys valid for one day under automatic file names: two secrets, NumIds
\* values of uuid4()[:8], and a clock that may tick between the readings of
\* one generate_key call.
BurstInputs ==
    [amounts |-> {1}, units |-> {"days"}, customs |-> {NoName},
     secrets |-> Secrets, presented |-> Secrets, ids |-> Ids,
     skews |-> 0..MaxSkew]

\* issuing and validating in a directory that starts empty
Spec == InitOn({EmptyStore}) /\ [][Program(ExpiryInputs)]_vars

\* every way of calling generate_key, with no directory at the start
SpecCalls == InitOn({AbsentStore}) /\ [][Program(CallInputs)]_vars

\* several keys issued under automatic file names
SpecBurst == InitOn({EmptyStore}) /\ [][Program(BurstInputs)]_vars

\* a directory that holds a file that is not JSON, or a record in a dated
\* subdirectory, at the start
SpecForeign ==
    InitOn({CorruptStore, PartitionedStore}) /\ [][Program(SmallInputs)]_vars

\* issuing and validating while files and the directory are deleted from
\* outside
SpecEnv ==
    /\ InitOn({EmptyStore})
    /\ [][Program(SmallInputs) \/ Environment]_vars

\* issuing and validating while writes of the record may fail
SpecFaults ==
    /\ InitOn({EmptyStore})
    /\ [][Program(SmallInputs) \/ StoreKeyFails]_vars

\* Spec with a validating caller that keeps running: a scan that can take
\* its next step eventually takes it
SpecLive ==
    /\ InitOn({EmptyStore})
    /\ [][Program(ExpiryInputs)]_vars
    /\ WF_vars(ValidateScan)

(***************************************************************************)
(* Properties.                                                             *)
(***************************************************************************)
\* the record file a directory entry is, if it is one that validate_key can
\* read: a *.json file holding a JSON record
IsRecordFile(entry) == endswith_json(entry.name) /\ entry.body.type = "json"

\* the scan is at a record file whose hash is the presented key's
AtMatch ==
    /\ val.pc = "scan"
    /\ HasName(dir, val.listing[val.idx])
    /\ LET entry == dir[IndexOf(dir, val.listing[val.idx])] IN
       /\ IsRecordFile(entry)
       /\ entry.body.data.hash = sha256(val.key)

\* the expiry time of the record the scan is at
ExpiresAtMatch ==
    fromisoformat(dir[IndexOf(dir, val.listing[val.idx])].body.data.expires)

\* validate_key returns in this step
ValidateReturns ==
    /\ \/ \E key \in PresentedKeys : ValidateBegin(key)
       \/ ValidateScan
    /\ val'.pc = "idle"

\* the first record file of directory d whose hash is key's, or 0
FirstMatch(d, key) ==
    LET hits == {i \in 1..Len(d) :
                    IsRecordFile(d[i]) /\ d[i].body.data.hash = sha256(key)}
    IN  IF hits = {} THEN 0
        ELSE CHOOSE i \in hits : \A j \in hits : i <= j

\* the entries of directory d that hold a record of key, whatever their
\* file names
Holders(d, key) ==
    {i \in 1..Len(d) : d[i].body.type = "json" /\ d[i].body.data.key = key}

\* C1 (round trip): a validate_key of the secret that generate_key has just
\* returned, for a positive duration, called after generate_key returned
\* with nothing happening in between (no tick of the clock, no change of
\* the directory) and with no other record of that secret in the directory,
\* returns Valid and a record whose valid_days is duration times the days
\* of the unit.
C1_RoundTrip ==
    [][(/\ ValidateReturns
        /\ calm'.call
        /\ calm'.iss
        /\ issueRet.status = "ok"
        /\ issueRet.data.duration >= 1
        /\ valRet'.key = issueRet.data.key
        /\ Cardinality(Holders(dir, issueRet.data.key)) <= 1) =>
          /\ valRet'.outcome = "Valid"
          /\ valRet'.data.valid_days =
                issueRet.data.duration * unit_multiplier[issueRet.data.unit]]_vars

\* C5 (missing store): a validate_key through a KeyGenerator whose directory
\* did not exist when it was constructed, and through which generate_key
\* was never called, returns "No keys found".
C5_MissingStore ==
    [][(/\ ValidateReturns
        /\ ~preRoot
        /\ issueRet.status = "none"
        /\ gen.pc = "idle") =>
          valRet'.outcome = "No keys found"]_vars

\* C6 (append-only): no step of __init__, generate_key or validate_key
\* removes or changes a record file that is in the directory.
C6_RecordsImmutable ==
    [][(\/ gen' # gen
        \/ issueRet' # issueRet
        \/ val' # val
        \/ valRet' # valRet
        \/ constructed' # constructed) =>
          \A i \in 1..Len(dir) :
              dir[i].body.type = "json" =>
                  \E j \in 1..Len(dir') : dir'[j] = dir[i]]_vars

\* C7 (disambiguation): while the clock shows the second in which the
\* program started, generate_key with an automatic file name never opens a
\* file that is already in the directory, and every secret generate_key has
\* returned gets Valid from a validate_key that runs with nothing being
\* written and nothing changing.
C7_Disambiguation ==
    /\ [][(gen.pc = "idle" /\ gen'.pc = "open" /\ clock' = 0
              /\ gen'.filename \notin CustomNames) =>
             ~HasName(dir, gen'.filename)]_vars
    /\ [][(/\ ValidateReturns
           /\ calm'.call
           /\ gen.pc = "idle"
           /\ clock' = 0
           /\ valRet'.key \in issuedKeys) =>
             valRet'.outcome = "Valid"]_vars

\* C8 (argument validation): generate_key opens, writes and returns a record
\* only for a duration of at least 1 and a unit among days, weeks, months,
\* years.
ValidRequest(key_data) ==
    key_data.duration >= 1 /\ key_data.unit \in DOMAIN unit_multiplier

C8_ArgumentValidation ==
    /\ gen.pc = "open" => ValidRequest(gen.key_data)
    /\ issueRet.status = "ok" => ValidRequest(issueRet.data)
    /\ \A i \in 1..Len(dir) :
          dir[i].body.type = "json" => ValidRequest(dir[i].body.data)

\* the outcome for key decided by the first record file of d that matches
ExpectedOutcome(d, key, now) ==
    IF fromisoformat(d[FirstMatch(d, key)].body.data.expires) > now
    THEN "Valid"
    ELSE "Key expired"

\* C2 (corruption tolerance): when the directory holds a record file of the
\* presented key, and nothing is being written and nothing changes while
\* validate_key runs, the outcome is the one the record files alone decide:
\* files that are not JSON make no difference, wherever they are listed.
C2_CorruptionTolerance ==
    [][(/\ ValidateReturns
        /\ calm'.call
        /\ gen.pc = "idle"
        /\ FirstMatch(dir, valRet'.key) # 0) =>
          valRet'.outcome = ExpectedOutcome(dir, valRet'.key, clock)]_vars

\* C4 (unknown key): when the directory exists, nothing is being written
\* and nothing changes while validate_key runs, a key that generate_key
\* never returned and that no record anywhere holds gets "Invalid key".
C4_UnknownKey ==
    [][(/\ ValidateReturns
        /\ calm'.call
        /\ gen.pc = "idle"
        /\ rootExists
        /\ valRet'.key \notin issuedKeys
        /\ \A i \in 1..Len(dir) :
              dir[i].body.type \in {"json", "dir"} =>
                  dir[i].body.data.key # valRet'.key) =>
          valRet'.outcome = "Invalid key"]_vars

\* C9 (layout coverage): an unexpired record of the presented key stored
\* in a dated subdirectory is found: with no record file of that key in the
\* directory itself, no unparseable file there, and nothing changing while
\* validate_key runs, the outcome is Valid.
C9_LayoutCoverage ==
    [][(/\ ValidateReturns
        /\ calm'.call
        /\ FirstMatch(dir, valRet'.key) = 0
        /\ \A i \in 1..Len(dir) : dir[i].body.type # "garbage"
        /\ \E i \in 1..Len(dir) :
              /\ dir[i].body.type = "dir"
              /\ dir[i].body.data.hash = sha256(valRet'.key)
              /\ fromisoformat(dir[i].body.data.expires) > clock) =>
          valRet'.outcome = "Valid"]_vars

\* C3 (expiry boundary): when the scan reaches the record whose hash is the
\* presented key's, validate_key returns at once, and it returns Valid if
\* the record's expires is strictly later than the clock at that moment and
\* Expired otherwise (also when expires equals the clock); it returns Valid
\* in no other way.
C3_ExpiryBoundary ==
    [][ValidateScan =>
          /\ AtMatch =>
                /\ val'.pc = "idle"
                /\ valRet'.key = val.key
                /\ valRet'.outcome =
                      IF ExpiresAtMatch > clock THEN "Valid" ELSE "Key expired"
          /\ (val'.pc = "idle" /\ valRet'.outcome = "Valid") =>
                AtMatch /\ ExpiresAtMatch > clock]_vars

\* C3 witness: a key issued for a positive number of days was presented at
\* the very tick it expires, and validate_key answered Expired
C3_Witness ==
    /\ val.pc = "idle"
    /\ calm.call
    /\ valRet.outcome = "Key expired"
    /\ FirstMatch(dir, valRet.key) # 0
    /\ LET data == dir[FirstMatch(dir, valRet.key)].body.data IN
       /\ data.duration >= 1
       /\ fromisoformat(data.expires) = clock

\* C10 (validation is read-only): no step of validate_key changes the
\* directory or its files, whatever it returns; and a validate_key of the
\* same key as the call before it, with the directory and the clock
\* untouched since that call began, returns what that call returned.
C10_ValidateReadOnly ==
    /\ [][(val' # val \/ valRet' # valRet) =>
             UNCHANGED <<rootExists, dir>>]_vars
    /\ [][(ValidateReturns /\ calm'.prev /\ valRet.outcome # "none"
              /\ valRet'.key = valRet.key) =>
             valRet' = valRet]_vars

\* C10 witness: a key was found expired twice in a row, and its record is
\* still in the directory
C10_Witness ==
    /\ val.pc = "idle"
    /\ calm.prev
    /\ calm.call
    /\ valRet.outcome = "Key expired"
    /\ FirstMatch(dir, valRet.key) # 0

\* the scan is at a *.json file that is in the directory and parses
AtRecord ==
    /\ val.pc = "scan"
    /\ HasName(dir, val.listing[val.idx])
    /\ IsRecordFile(dir[IndexOf(dir, val.listing[val.idx])])

\* C11 (timestamp consistency): in every record generate_key has built or
\* written, expires is created plus valid_days days, however the clock
\* moves while generate_key runs.
ExpiresFromCreated(key_data) ==
    fromisoformat(key_data.expires) =
        fromisoformat(key_data.created) + timedelta(key_data.valid_days)

C11_TimestampConsistency ==
    /\ gen.pc = "open" => ExpiresFromCreated(gen.key_data)
    /\ issueRet.status = "ok" => ExpiresFromCreated(issueRet.data)
    /\ \A i \in 1..Len(dir) :
          dir[i].body.type = "json" => ExpiresFromCreated(dir[i].body.data)

\* C12 (hash determinism): the hash of every record in the directory is the
\* SHA-256 of that record's key; and validate_key, at a record it can read,
\* stops with Valid or Expired exactly when the record's hash is the
\* SHA-256 of the presented key, and goes on (or ends with "Invalid key")
\* otherwise.
C12_HashDeterminism ==
    /\ [](\A i \in 1..Len(dir) :
            dir[i].body.type = "json" =>
                dir[i].body.data.hash = sha256(dir[i].body.data.key))
    /\ [][(ValidateScan /\ AtRecord) =>
             LET data == dir[IndexOf(dir, val.listing[val.idx])].body.data
                 stops == /\ val'.pc = "idle"
                          /\ valRet'.outcome \in {"Valid", "Key expired"}
             IN  /\ stops <=> (data.hash = sha256(val.key))
                 /\ ~stops => \/ val'.idx = val.idx + 1
                               \/ valRet'.outcome = "Invalid key"]_vars

\* C12 witness: a key was found Valid in a record listed after the record
\* of another key, which the scan passed over
C12_Witness ==
    /\ val.pc = "idle"
    /\ calm.call
    /\ valRet.outcome = "Valid"
    /\ FirstMatch(dir, valRet.key) > 1
    /\ IsRecordFile(dir[1])
    /\ dir[1].body.data.hash # sha256(valRet.key)

\* C13 (partial writes): when the scan comes to the file that generate_key
\* has opened and not yet written, validate_key skips it: it goes on to the
\* next file name, or, after the last one, returns "Invalid key".
C13_PartialWriteSkipped ==
    [][(/\ ValidateScan
        /\ gen.pc = "open"
        /\ val.listing[val.idx] = gen.filename) =>
          \/ val'.pc = "scan" /\ val'.idx = val.idx + 1
          \/ val'.pc = "idle" /\ valRet'.outcome = "Invalid key"]_vars

\* C14 (first match): the scan stops at the first record whose hash is the
\* presented key's; and when nothing changes while validate_key runs and
\* every *.json file listed before that record parses, the outcome is the
\* one that record alone decides (Valid with that record, or Expired),
\* whatever the records listed before and after it hold.
C14_FirstMatchDecides ==
    /\ [][(ValidateScan /\ AtMatch) => val'.pc = "idle"]_vars
    /\ [][(/\ ValidateReturns
           /\ calm'.call
           /\ FirstMatch(dir, valRet'.key) # 0
           /\ \A i \in 1..(FirstMatch(dir, valRet'.key) - 1) :
                 endswith_json(dir[i].name) => dir[i].body.type = "json") =>
             /\ valRet'.outcome = ExpectedOutcome(dir, valRet'.key, clock)
             /\ valRet'.outcome = "Valid" =>
                   valRet'.data = dir[FirstMatch(dir, valRet'.key)].body.data]_vars

\* C14 witness: a key was found expired in the first of two records of it,
\* both issued for a positive duration, while the second has not expired
C14_Witness ==
    /\ val.pc = "idle"
    /\ calm.call
    /\ valRet.outcome = "Key expired"
    /\ FirstMatch(dir, valRet.key) # 0
    /\ dir[FirstMatch(dir, valRet.key)].body.data.duration >= 1
    /\ \E j \in (FirstMatch(dir, valRet.key) + 1)..Len(dir) :
          /\ IsRecordFile(dir[j])
          /\ dir[j].body.data.hash = sha256(valRet.key)
          /\ dir[j].body.data.duration >= 1
          /\ fromisoformat(dir[j].body.data.expires) > clock

\* C15 (failed issuance): when generate_key ends with an exception, the
\* directory holds no file of that call: none under the name it had opened,
\* and nothing new if it had opened none.
C15_FailedIssueLeavesNothing ==
    [][(issueRet' # issueRet /\ issueRet'.status # "ok") =>
          IF gen.pc = "open"
          THEN ~HasName(dir', gen.filename)
          ELSE dir' = dir]_vars

\* C16 (lazy root): __init__ and validate_key leave the existence of the
\* keys directory as it is, and __init__ on a directory that exists changes
\* nothing in it.
C16_LazyRoot ==
    /\ [][Construct => UNCHANGED rootExists]_vars
    /\ [][(val' # val \/ valRet' # valRet) => UNCHANGED rootExists]_vars
    /\ [][(Construct /\ rootExists) => (rootExists' /\ dir' = dir)]_vars

\* C17 (StoreMissing): validate_key returns "No keys found" only when the
\* keys directory does not exist at that moment.
C17_StoreMissingMeansNoRoot ==
    [][(ValidateReturns /\ valRet'.outcome = "No keys found") =>
          ~rootExists]_vars

\* C18 (expiry is monotone): a validate_key of the secret of the latest
\* successful generate_key, issued for a positive duration and the only
\* record of that secret, run with nothing being written and nothing
\* changing, returns Valid while the clock is before the record's expires
\* and Expired from then on; and, the secret having been issued once, a
\* validate_key that follows one that found it Expired does not find it
\* Valid.
C18_ExpiryMonotone ==
    /\ [][(/\ ValidateReturns
           /\ calm'.call
           /\ gen.pc = "idle"
           /\ issueRet.status = "ok"
           /\ issueRet.data.duration >= 1
           /\ valRet'.key = issueRet.data.key
           /\ Cardinality(Holders(dir, issueRet.data.key)) <= 1) =>
             valRet'.outcome =
                 IF fromisoformat(issueRet.data.expires) > clock
                 THEN "Valid"
                 ELSE "Key expired"]_vars
    /\ [][(/\ ValidateReturns
           /\ nCalls = 1
           /\ valRet.outcome = "Key expired"
           /\ valRet'.key = valRet.key) =>
             valRet'.outcome # "Valid"]_vars

\* line 78-83: what validate_key returns
Outcomes == {"Valid", "Key expired", "Invalid key", "No keys found"}

\* a scan in progress can always take its next step, whatever generate_key
\* is doing; each step ends the call or moves to the next name of the
\* listing taken at the start, which does not grow; and the call ends
ValidateEnds ==
    /\ [](val.pc = "scan" =>
            /\ val.idx \in 1..Len(val.listing)
            /\ ENABLED ValidateScan)
    /\ [][ValidateScan =>
             \/ val'.pc = "idle"
             \/ /\ val'.idx = val.idx + 1
                /\ val'.listing = val.listing]_vars
    /\ (val.pc = "scan") ~> (val.pc = "idle")

\* C19 (termination): every validate_key call ends, after looking at each
\* name of its listing at most once and without waiting for generate_key,
\* and it ends by returning one of its outcomes.
C19_Terminates ==
    /\ ValidateEnds
    /\ [][ValidateReturns => valRet'.outcome \in Outcomes]_vars

====
